---------------------------- MODULE Spec2Model ----------------------------
(***************************************************************************)
(* tube-recipe (src/main.py): a sequential pipeline that fetches a video's *)
(* transcript and metadata, asks a language model for a structured recipe  *)
(* and prints it as schema.org JSON-LD.                                    *)
(*                                                                         *)
(* Text that the program splits, trims or joins (the preferred_languages   *)
(* setting, language codes, caption texts, the transcript) is a sequence   *)
(* of one-character strings.  Text that is only copied (titles, names,     *)
(* URLs) is a TLA+ string.  An optional value (T | None) is a sequence of  *)
(* length 0 (None) or 1 (the value).                                       *)
(***************************************************************************)
EXTENDS Integers, Sequences, FiniteSets, TLC

VARIABLES
    settings,          \* Settings(): the fields main.py reads
    pc,                \* position of main()
    transcript_text,   \* main's local, str | None
    video_info,        \* main's local, VideoInfo | None
    base_recipe,       \* main's local, BaseRecipe | None
    recipe,            \* main's local, Recipe (None until built)
    calls,             \* external service invocations, in order
    results,           \* what each helper handed back to main, in order
    stdout             \* what was printed, in order

vars ==
    <<settings, pc, transcript_text, video_info, base_recipe, recipe, calls, results, stdout>>

----------------------------------------------------------------------------
(* Bounds of the model *)

MaxLangLen == 4        \* longest preferred_languages setting drawn
MaxEntries == 3        \* most caption entries in a drawn response
MaxTextLen == 2        \* longest caption text drawn
MaxIngredients == 2    \* most ingredients in a drawn model answer
MaxInstructions == 2   \* most instruction items in a drawn model answer

----------------------------------------------------------------------------
(* Python values *)

None == <<>>
Some(v) == <<v>>
Value(opt) == opt[1]

\* str.strip() with no argument removes these
Whitespace == {" ", "\t", "\n", "\r", "\f"}

\* all character sequences of length <= n over alphabet A
StringsUpTo(A, n) == UNION {[1..k -> A] : k \in 0..n}

\* Python f"...{id}" and + on text that is only copied is not modelled
\* character by character; language codes are.
En == <<"e", "n">>

----------------------------------------------------------------------------
(* str.split(","), str.strip(), " ".join(...) *)

RECURSIVE lstrip(_)
lstrip(s) ==
    IF s # <<>> /\ Head(s) \in Whitespace THEN lstrip(Tail(s)) ELSE s

RECURSIVE rstrip(_)
rstrip(s) ==
    IF s # <<>> /\ s[Len(s)] \in Whitespace
    THEN rstrip(SubSeq(s, 1, Len(s) - 1))
    ELSE s

strip(s) == rstrip(lstrip(s))

\* left-to-right scan: cur is the part being collected
RECURSIVE splitScan(_, _, _)
splitScan(s, sep, cur) ==
    IF s = <<>> THEN <<cur>>
    ELSE IF Head(s) = sep THEN <<cur>> \o splitScan(Tail(s), sep, <<>>)
    ELSE splitScan(Tail(s), sep, Append(cur, Head(s)))

split(s, sep) == splitScan(s, sep, <<>>)

RECURSIVE join_concat(_, _)
join_concat(sep, items) ==
    IF items = <<>> THEN <<>> ELSE Head(items) \o join_concat(sep, Tail(items))

\* sep.join(items): the separator goes between consecutive items
RECURSIVE join(_, _)
join(sep, items) ==
    IF items = <<>> THEN <<>>
    ELSE IF Len(items) = 1 THEN items[1]
    ELSE items[1] \o sep \o join(sep, Tail(items))

----------------------------------------------------------------------------
(* Settings *)

DefaultPreferredLanguages == <<"k", "o">>

preferred_languages_list_unstripped(s) == split(s.preferred_languages, ",")

preferred_languages_list(s) ==
    LET parts == split(s.preferred_languages, ",")
    IN  [i \in 1..Len(parts) |-> strip(parts[i])]


\* settings.preferred_languages_list + ["en"]  (get_transcript's languages=)
languages(s) == preferred_languages_list(s) \o <<En>>

----------------------------------------------------------------------------
(* The pydantic models.  A model object is a record keyed by the Python   *)
(* field names; a dict or JSON object is a function keyed by whatever     *)
(* keys it was written with.                                              *)

SchemaOrg == "https://schema.org"

StrFields ==
    {"name", "cookTime", "description", "keywords", "prepTime",
     "recipeCategory", "recipeCuisine"}

BaseRecipeRequired == StrFields \cup {"recipeIngredient", "recipeInstructions"}

\* Field(alias=...): the key a field is read from and, by_alias, written to
Alias(k) ==
    IF k = "context" THEN "@context" ELSE IF k = "type" THEN "@type" ELSE k

\* the value of a Literal field with a default: absent key -> default
LiteralField(d, key, literal) ==
    IF key \in DOMAIN d THEN d[key] ELSE literal

\* HowToStep(**d): None stands for ValidationError
HowToStep(d) ==
    IF "text" \in DOMAIN d /\ LiteralField(d, "@type", "HowToStep") = "HowToStep"
    THEN Some([type |-> "HowToStep", text |-> d["text"]])
    ELSE None

\* HowToSection(**d)
HowToSection(d) ==
    IF /\ {"name", "itemListElement"} \subseteq DOMAIN d
       /\ LiteralField(d, "@type", "HowToSection") = "HowToSection"
       /\ \A i \in 1..Len(d["itemListElement"]) :
             HowToStep(d["itemListElement"][i]) # None
    THEN Some([type |-> "HowToSection",
               name |-> d["name"],
               itemListElement |->
                   [i \in 1..Len(d["itemListElement"]) |->
                       Value(HowToStep(d["itemListElement"][i]))]])
    ELSE None

\* the union HowToStep | HowToSection
HowToStepOrSection(d) ==
    IF HowToStep(d) # None THEN HowToStep(d) ELSE HowToSection(d)

\* the fields BaseRecipe declares, validated from d; extra keys are ignored
BaseRecipeFields(d) ==
    [context |-> LiteralField(d, "@context", SchemaOrg),
     type |-> LiteralField(d, "@type", "Recipe"),
     name |-> d["name"],
     cookTime |-> d["cookTime"],
     description |-> d["description"],
     keywords |-> d["keywords"],
     prepTime |-> d["prepTime"],
     recipeCategory |-> d["recipeCategory"],
     recipeCuisine |-> d["recipeCuisine"],
     recipeIngredient |-> d["recipeIngredient"],
     recipeInstructions |->
         [i \in 1..Len(d["recipeInstructions"]) |->
             Value(HowToStepOrSection(d["recipeInstructions"][i]))]]

BaseRecipeValid(d) ==
    /\ BaseRecipeRequired \subseteq DOMAIN d
    /\ LiteralField(d, "@context", SchemaOrg) = SchemaOrg
    /\ LiteralField(d, "@type", "Recipe") = "Recipe"
    /\ \A i \in 1..Len(d["recipeInstructions"]) :
          HowToStepOrSection(d["recipeInstructions"][i]) # None

\* BaseRecipe(**d) / BaseRecipe.model_validate(d)
BaseRecipe(d) ==
    IF BaseRecipeValid(d) THEN Some(BaseRecipeFields(d)) ELSE None

\* Recipe(**d)
Recipe(d) ==
    IF BaseRecipeValid(d) /\ {"image", "author"} \subseteq DOMAIN d
    THEN Some(BaseRecipeFields(d) @@ [image |-> d["image"], author |-> d["author"]])
    ELSE None

\* model.model_dump(by_alias=...): nested models are dumped too
RECURSIVE model_dump(_, _)
model_dump(o, by_alias) ==
    LET KeyOf(k) == IF by_alias THEN Alias(k) ELSE k
    IN  [key \in {KeyOf(k) : k \in DOMAIN o} |->
            LET k == CHOOSE f \in DOMAIN o : KeyOf(f) = key
            IN  IF k \in {"recipeInstructions", "itemListElement"}
                THEN [i \in 1..Len(o[k]) |-> model_dump(o[k][i], by_alias)]
                ELSE o[k]]

model_dump_json_by_name(o) == model_dump(o, FALSE)

\* recipe.model_dump_json(by_alias=True), as the JSON object it writes
model_dump_json(o) == model_dump(o, TRUE)

VideoInfo(title, author, thumbnail_url) ==
    [title |-> title, author |-> author, thumbnail_url |-> thumbnail_url]

from_base_recipe_title_as_author(base_recipe_, video_info_) ==
    Recipe(model_dump(base_recipe_, FALSE)
             @@ [image |-> video_info_.thumbnail_url, author |-> video_info_.title])

\* Recipe.from_base_recipe: cls(**base_recipe.model_dump(), image=..., author=...)
from_base_recipe(base_recipe_, video_info_) ==
    Recipe(model_dump(base_recipe_, FALSE)
             @@ [image |-> video_info_.thumbnail_url, author |-> video_info_.author])

----------------------------------------------------------------------------
(* The helpers.  Each yields [exc, ret, log, calls]: whether an exception  *)
(* left the function, the value returned (None when exc), the lines it     *)
(* printed and the external calls it made, each with what the service     *)
(* answered.  Its last argument is what the external service does when    *)
(* called.                                                                 *)

Returned(ret, log, calls_) == [exc |-> FALSE, ret |-> ret, log |-> log, calls |-> calls_]
Propagated(calls_) == [exc |-> TRUE, ret |-> None, log |-> <<>>, calls |-> calls_]

\* info.get(key) or ""
GetOrEmpty(info, key) ==
    IF key \in DOMAIN info /\ info[key] # None THEN Value(info[key]) ELSE ""

get_video_info(video_id, ydl) ==
    LET call == [svc |-> "extract_info",
                 url |-> <<"https://www.youtube.com/watch?v=", video_id>>,
                 raised |-> ydl.extract_info = "raise",
                 info |-> ydl.info]
    IN  IF ydl.extract_info = "raise"
        THEN Returned(None, <<"Error fetching video info">>, <<call>>)
        ELSE IF ydl.info = None
        THEN Returned(None, <<>>, <<call>>)
        ELSE Returned(Some(VideoInfo(GetOrEmpty(Value(ydl.info), "title"),
                                     GetOrEmpty(Value(ydl.info), "uploader"),
                                     GetOrEmpty(Value(ydl.info), "thumbnail"))),
                      <<>>, <<call>>)

get_transcript(video_id, api) ==
    LET call == [svc |-> "fetch", video_id |-> video_id,
                 languages |-> languages(settings),
                 raised |-> api.fetch = "raise",
                 entries |-> [i \in 1..Len(api.entries) |-> api.entries[i].text]]
    IN  IF api.fetch = "raise"
        THEN Returned(None, <<"Error fetching transcript">>, <<call>>)
        ELSE IF api.to_raw_data = "raise"
        THEN Propagated(<<call>>)
        ELSE Returned(
                 Some(join(<<" ">>,
                           [i \in 1..Len(api.entries) |-> api.entries[i].text])),
                 <<>>, <<call>>)

extract_recipe(title, transcript, openai) ==
    LET call == [svc |-> "responses.parse", title |-> title, transcript |-> transcript]
    IN  IF openai.client = "raise"
        THEN Propagated(<<>>)
        ELSE IF openai.parse = "raise"
        THEN Returned(None, <<"Error extracting recipe">>, <<call>>)
        ELSE IF openai.output = None
        THEN Returned(None, <<>>, <<call>>)
        ELSE IF BaseRecipe(Value(openai.output)) = None
        THEN Returned(None, <<"Error extracting recipe">>, <<call>>)
        ELSE Returned(BaseRecipe(Value(openai.output)), <<>>, <<call>>)

----------------------------------------------------------------------------
(* main() *)

Line(text) == [line |-> text]
Json(doc) == [json |-> doc]
IsJson(out) == "json" \in DOMAIN out
IsLine(out) == "line" \in DOMAIN out

Lines(log) == [i \in 1..Len(log) |-> Line(log[i])]

Outcome(r) == IF r.exc THEN "exception" ELSE IF r.ret = None THEN "none" ELSE "value"

Result(fn, r) == [fn |-> fn, outcome |-> Outcome(r), log |-> r.log]

\* lines 172-174: if transcript_text is None: print(...); return
AfterTranscript_retry(r) ==
    IF r.exc THEN "crashed" ELSE IF r.ret = None THEN "get_transcript" ELSE "get_video_info"

AfterTranscript(r) ==
    IF r.exc THEN "crashed" ELSE IF r.ret = None THEN "done" ELSE "get_video_info"

\* lines 177-179: if video_info is None: print(...); return
AfterVideoInfo_no_return(r) ==
    IF r.exc THEN "crashed" ELSE "extract_recipe"

AfterVideoInfo(r) ==
    IF r.exc THEN "crashed" ELSE IF r.ret = None THEN "done" ELSE "extract_recipe"

\* lines 183-185: if base_recipe is None: print(...); return
AfterExtract(r) ==
    IF r.exc THEN "crashed" ELSE IF r.ret = None THEN "done" ELSE "from_base_recipe"

\* lines 171-174
MainGetTranscript(service) ==
    /\ pc = "get_transcript"
    /\ \E api \in service :
          LET r == get_transcript(settings.video_id, api)
          IN  /\ calls' = calls \o r.calls
              /\ results' = Append(results, Result("get_transcript", r))
              /\ transcript_text' = r.ret
              /\ stdout' = stdout \o Lines(r.log) \o
                     (IF ~r.exc /\ r.ret = None
                      THEN <<Line("Failed to retrieve transcript.")>> ELSE <<>>)
              /\ pc' = AfterTranscript(r)
    /\ UNCHANGED <<settings, video_info, base_recipe, recipe>>

\* lines 176-179
MainGetVideoInfo(service) ==
    /\ pc = "get_video_info"
    /\ \E ydl \in service :
          LET r == get_video_info(settings.video_id, ydl)
          IN  /\ calls' = calls \o r.calls
              /\ results' = Append(results, Result("get_video_info", r))
              /\ video_info' = r.ret
              /\ stdout' = stdout \o Lines(r.log) \o
                     (IF ~r.exc /\ r.ret = None
                      THEN <<Line("Failed to retrieve video information.")>> ELSE <<>>)
              /\ pc' = AfterVideoInfo(r)
    /\ UNCHANGED <<settings, transcript_text, base_recipe, recipe>>

\* lines 181-185
MainExtractRecipe(service) ==
    /\ pc = "extract_recipe"
    /\ \E openai \in service :
          LET r == extract_recipe(Value(video_info).title, Value(transcript_text), openai)
          IN  /\ calls' = calls \o r.calls
              /\ results' = Append(results, Result("extract_recipe", r))
              /\ base_recipe' = r.ret
              /\ stdout' = stdout \o Lines(r.log) \o
                     (IF ~r.exc /\ r.ret = None
                      THEN <<Line("Failed to extract recipe")>> ELSE <<>>)
              /\ pc' = AfterExtract(r)
    /\ UNCHANGED <<settings, transcript_text, video_info, recipe>>

\* lines 187-189
MainPrintRecipe ==
    /\ pc = "from_base_recipe"
    /\ recipe' = from_base_recipe(Value(base_recipe), Value(video_info))
    /\ IF recipe' = None
       THEN pc' = "crashed" /\ stdout' = stdout
       ELSE pc' = "done" /\ stdout' = Append(stdout, Json(model_dump_json(Value(recipe'))))
    /\ UNCHANGED <<settings, transcript_text, video_info, base_recipe, calls, results>>

----------------------------------------------------------------------------
(* What the external services may do *)

Entry(text) == [text |-> text]

CaptionRaises == [fetch |-> "raise", to_raw_data |-> "ok", entries |-> <<>>]
FlattenRaises == [fetch |-> "ok", to_raw_data |-> "raise", entries |-> <<>>]
CaptionEntries(entries) == [fetch |-> "ok", to_raw_data |-> "ok", entries |-> entries]

\* the caption service: raises, or answers with one of the entry lists
CaptionService(entryLists) ==
    {CaptionRaises, FlattenRaises} \cup {CaptionEntries(e) : e \in entryLists}

CaptionAlphabet == {"a", " "}

\* every entry list of at most MaxEntries texts of at most MaxTextLen characters
BoundedEntryLists ==
    LET texts == StringsUpTo(CaptionAlphabet, MaxTextLen)
    IN  UNION {[1..n -> {Entry(t) : t \in texts}] : n \in 0..MaxEntries}

SampleEntryLists ==
    {<<>>,
     <<Entry(<<"a">>)>>,
     <<Entry(<<"a">>), Entry(<<"b", " ", "c">>)>>}

InfoRaises == [extract_info |-> "raise", info |-> None]
InfoIs(info) == [extract_info |-> "ok", info |-> info]

SampleInfos ==
    {None,
     Some([title |-> Some("Fried Onion Recipe"), uploader |-> Some("ChefX"),
           thumbnail |-> Some("https://img/x.jpg")]),
     Some([title |-> Some("Fried Onion Recipe"), uploader |-> None]),
     Some(<<>>)}

InfoService(infos) == {InfoRaises} \cup {InfoIs(i) : i \in infos}

ClientRaises == [client |-> "raise", parse |-> "ok", output |-> None]
ParseRaises == [client |-> "ok", parse |-> "raise", output |-> None]
ModelAnswers(output) == [client |-> "ok", parse |-> "ok", output |-> output]

\* the LLM endpoint: client construction raises, the call raises, there is no
\* parsed output, or the model answers with one of the JSON objects
LlmService(answers) ==
    {ClientRaises, ParseRaises, ModelAnswers(None)}
        \cup {ModelAnswers(Some(a)) : a \in answers}

Step(text) == ("@type" :> "HowToStep") @@ ("text" :> text)
Section(name, items) ==
    ("@type" :> "HowToSection") @@ ("name" :> name) @@ ("itemListElement" :> items)

Answer(name, category, ingredients, instructions) ==
    [name |-> name, cookTime |-> "PT30M", description |-> "d", keywords |-> "k",
     prepTime |-> "PT5M", recipeCategory |-> category, recipeCuisine |-> "Korean",
     recipeIngredient |-> ingredients, recipeInstructions |-> instructions]

WithLiterals(answer, context, type) ==
    ("@context" :> context) @@ ("@type" :> type) @@ answer

Without(answer, key) == [k \in DOMAIN answer \ {key} |-> answer[k]]

Categories == {"appetizer", "main course", "side dish", "dessert", "beverage", "snack"}

SampleInstructions ==
    {<<>>,
     <<Step("chop")>>,
     <<Section("Cooking", <<Step("fry")>>)>>,
     <<Step("chop"), Section("Cooking", <<Step("fry"), Step("stir")>>), Step("serve")>>}

SampleAnswers ==
    LET plain == {Answer("Fried Onions", c, <<"onion">>, i) :
                      c \in Categories \cup {"breakfast"}, i \in SampleInstructions}
    IN  plain
        \cup {WithLiterals(a, SchemaOrg, "Recipe") : a \in plain}
        \cup {WithLiterals(Answer("Fried Onions", "snack", <<>>, <<Step("chop")>>), c, t) :
                  c \in {SchemaOrg, "http://schema.org"}, t \in {"Recipe", "HowTo"}}
        \cup {Without(Answer("Fried Onions", "snack", <<>>, <<>>), "name")}
        \cup {Answer("Fried Onions", "snack", <<>>, <<[name |-> "no steps"]>>)}

----------------------------------------------------------------------------
(* The pipeline *)

SampleLanguages == {DefaultPreferredLanguages, <<"k", "o", ",", " ", "j", "a">>}

InitWith(languageSettings) ==
    /\ settings \in [video_id : {"abc123"}, preferred_languages : languageSettings]
    /\ pc = "get_transcript"
    /\ transcript_text = None
    /\ video_info = None
    /\ base_recipe = None
    /\ recipe = None
    /\ calls = <<>>
    /\ results = <<>>
    /\ stdout = <<>>

Init == InitWith(SampleLanguages)

Next ==
    \/ MainGetTranscript(CaptionService(SampleEntryLists))
    \/ MainGetVideoInfo(InfoService(SampleInfos))
    \/ MainExtractRecipe(LlmService(SampleAnswers))
    \/ MainPrintRecipe

Spec == Init /\ [][Next]_vars

----------------------------------------------------------------------------
(* The language list: the transcript step alone, over every               *)
(* preferred_languages setting of at most MaxLangLen characters            *)

LangAlphabet == {"k", "o", " ", ","}

InitLang == InitWith(StringsUpTo(LangAlphabet, MaxLangLen))

NextLang == MainGetTranscript(CaptionService({<<Entry(<<"a">>)>>}))

SpecLang == InitLang /\ [][NextLang]_vars

(* The flattening: the transcript step alone, over every bounded response *)

NextJoin == MainGetTranscript(CaptionService(BoundedEntryLists))

SpecJoin == Init /\ [][NextJoin]_vars

(* The assembler: the pipeline over every bounded model answer *)

Variant(v, a, b) == IF v = 1 THEN a ELSE b

BoundedItems ==
    {Step("chop"), Step("fry"),
     Section("Cooking", <<>>),
     Section("Cooking", <<Step("fry")>>),
     Section("Finishing", <<Step("fry"), Step("chop")>>)}

BoundedAnswers ==
    {[name |-> Variant(v, "Fried Onions", "Soup"),
      cookTime |-> Variant(v, "PT30M", "PT1H"),
      description |-> Variant(v, "d1", "d2"),
      keywords |-> Variant(v, "k1", "k2"),
      prepTime |-> Variant(v, "PT5M", "PT10M"),
      recipeCategory |-> Variant(v, "snack", "main course"),
      recipeCuisine |-> Variant(v, "Korean", "Italian"),
      recipeIngredient |-> ingredients,
      recipeInstructions |-> instructions] :
        v \in {1, 2},
        ingredients \in UNION {[1..n -> {"onion", "oil"}] : n \in 0..MaxIngredients},
        instructions \in UNION {[1..n -> BoundedItems] : n \in 0..MaxInstructions}}

AssembleInfos ==
    {Some([title |-> Some("Fried Onion Recipe"), uploader |-> Some("ChefX"),
           thumbnail |-> Some("https://img/x.jpg")]),
     Some([title |-> Some("ChefX"), uploader |-> Some("https://img/x.jpg"),
           thumbnail |-> Some("Fried Onion Recipe")])}

NextAssemble ==
    \/ MainGetTranscript(CaptionService({<<Entry(<<"a">>)>>}))
    \/ MainGetVideoInfo(InfoService(AssembleInfos))
    \/ MainExtractRecipe(LlmService(BoundedAnswers))
    \/ MainPrintRecipe

InitAssemble == InitWith({DefaultPreferredLanguages})

SpecAssemble == InitAssemble /\ [][NextAssemble]_vars

----------------------------------------------------------------------------
(* Properties *)

Terminated == pc \in {"done", "crashed"}

CallsTo(svc) == {i \in DOMAIN calls : calls[i].svc = svc}

ResultsOf(fn) == {i \in DOMAIN results : results[i].fn = fn}

JsonPrinted == {i \in DOMAIN stdout : IsJson(stdout[i])}

Printed(text) == \E i \in DOMAIN stdout : IsLine(stdout[i]) /\ stdout[i].line = text

FailureMessages ==
    {"Failed to retrieve transcript.", "Failed to retrieve video information.",
     "Failed to extract recipe"}

FailurePrinted == \E m \in FailureMessages : Printed(m)

Min(S) == CHOOSE x \in S : \A y \in S : x <= y
Max(S) == CHOOSE x \in S : \A y \in S : x >= y

\* C10, by position: the k-th comma-separated part of s, trimmed
CommasOf(s) == {i \in 1..Len(s) : s[i] = ","}

Boundary(s, k) ==
    IF k = 0 THEN 0
    ELSE IF k > Cardinality(CommasOf(s)) THEN Len(s) + 1
    ELSE CHOOSE c \in CommasOf(s) : Cardinality({j \in CommasOf(s) : j < c}) = k - 1

TrimmedPart(s, k) ==
    LET inside == (Boundary(s, k - 1) + 1)..(Boundary(s, k) - 1)
        kept == {i \in inside : s[i] \notin Whitespace}
    IN  IF kept = {} THEN <<>> ELSE SubSeq(s, Min(kept), Max(kept))

\* C10: the languages passed to the caption service are the comma-separated
\* parts of settings.preferred_languages, each trimmed, in order, followed by
\* exactly one "en" as the last element.
C10_LanguagesAreTrimmedPartsThenEn ==
    \A i \in CallsTo("fetch") :
        LET s == settings.preferred_languages
            n == Cardinality(CommasOf(s)) + 1
            langs == calls[i].languages
        IN  /\ Len(langs) = n + 1
            /\ langs[n + 1] = En
            /\ \A k \in 1..n : langs[k] = TrimmedPart(s, k)

C10_Witness ==
    /\ settings.preferred_languages = <<" ", "k", ",", "o">>
    /\ CallsTo("fetch") # {}
    /\ calls[1].languages = << <<"k">>, <<"o">>, En >>

RECURSIVE Offset(_, _)
\* where the k-th text starts in the joined transcript, less one
Offset(e, k) == IF k = 1 THEN 0 ELSE Offset(e, k - 1) + Len(e[k - 1]) + 1

\* C5: the transcript returned is t1 + " " + t2 + ... + " " + tN: every caption
\* text in its place and order, a single space between consecutive texts,
\* nothing else.
C5_TranscriptIsSpaceJoinedTexts ==
    \A i \in CallsTo("fetch") :
        transcript_text # None =>
            LET e == calls[i].entries
                r == Value(transcript_text)
                N == Len(e)
            IN  /\ Len(r) = IF N = 0 THEN 0 ELSE Offset(e, N) + Len(e[N])
                /\ \A k \in 1..N :
                      SubSeq(r, Offset(e, k) + 1, Offset(e, k) + Len(e[k])) = e[k]
                /\ \A k \in 2..N : r[Offset(e, k)] = " "

C5_Witness ==
    /\ CallsTo("fetch") # {}
    /\ calls[1].entries = << <<"a">>, <<>>, <<" ", "a">> >>
    /\ transcript_text = Some(<<"a", " ", " ", " ", "a">>)


\* C1: when the caption fetch raised, or answered with zero entries, no
\* metadata fetch and no LLM call is ever made, and the run, once over, has
\* printed the transcript failure message and no JSON-LD.
C1_NoTranscriptStopsBeforeMetadata ==
    \A i \in CallsTo("fetch") :
        (calls[i].raised \/ (calls[i].entries = <<>> /\ results[1].outcome # "exception"))
            => /\ CallsTo("extract_info") = {}
               /\ CallsTo("responses.parse") = {}
               /\ JsonPrinted = {}
               /\ Terminated => Printed("Failed to retrieve transcript.")

\* C2: when get_video_info raised or yielded no result (the info service
\* raised or returned no info), main has returned with the failure message as
\* the last thing printed: no LLM call was made, no recipe was extracted or
\* assembled, no JSON-LD was printed, and nothing ran after it.
C2_NoMetadataStopsThePipeline ==
    \A i \in ResultsOf("get_video_info") :
        \A c \in CallsTo("extract_info") :
            (results[i].outcome # "value" \/ calls[c].raised \/ calls[c].info = None)
                => /\ pc = "done"
                   /\ stdout # <<>>
                   /\ stdout[Len(stdout)] = Line("Failed to retrieve video information.")
                   /\ CallsTo("responses.parse") = {}
                   /\ ResultsOf("extract_recipe") = {}
                   /\ base_recipe = None
                   /\ recipe = None
                   /\ JsonPrinted = {}
                   /\ i = Len(results)
                   /\ c = Len(calls)

C2_Witness ==
    /\ pc = "done"
    /\ CallsTo("extract_info") # {}
    /\ calls[Len(calls)].svc = "extract_info"
    /\ calls[Len(calls)].raised
    /\ Printed("Error fetching video info")

\* C3: a run never prints both a failure message and JSON-LD, prints JSON-LD
\* at most once and only when transcript, metadata and recipe were all
\* obtained, and a run that has ended has printed exactly one of the two.
C3_ExactlyOneOutcome ==
    /\ ~(JsonPrinted # {} /\ FailurePrinted)
    /\ Cardinality(JsonPrinted) <= 1
    /\ JsonPrinted # {} =>
          /\ Terminated
          /\ transcript_text # None /\ video_info # None /\ base_recipe # None
    /\ Terminated => (JsonPrinted # {} \/ FailurePrinted)

\* C4: the Recipe built by from_base_recipe has every BaseRecipe field equal to
\* the base recipe's (lists in order, instruction items with their variant and
\* contents), image = thumbnail_url and author = author, and no other field;
\* the title is not used; and building it never fails.
C4_RecipeIsBasePlusImageAndAuthor ==
    /\ (pc = "done" /\ base_recipe # None) => recipe # None
    /\ results # <<>> /\ results[Len(results)].outcome # "exception" => pc # "crashed"
    /\ recipe # None =>
          LET r == Value(recipe)
              b == Value(base_recipe)
              v == Value(video_info)
          IN  /\ DOMAIN r = DOMAIN b \cup {"image", "author"}
              /\ \A f \in DOMAIN b : r[f] = b[f]
              /\ r.image = v.thumbnail_url
              /\ r.author = v.author

C4_Witness ==
    /\ recipe # None
    /\ Value(video_info).title # Value(video_info).author
    /\ Value(recipe).author = "ChefX"
    /\ Len(Value(recipe).recipeIngredient) = 2
    /\ Len(Value(base_recipe).recipeInstructions) = 2
    /\ Value(recipe).recipeInstructions[1].type = "HowToSection"
    /\ Len(Value(recipe).recipeInstructions[1].itemListElement) = 2
    /\ Value(recipe).recipeInstructions[2].type = "HowToStep"

\* C6: every JSON-LD document printed has "@context": "https://schema.org" and
\* "@type": "Recipe", under those alias keys and not under context / type.
C6_JsonLdHasContextAndType ==
    \A i \in JsonPrinted :
        LET doc == stdout[i].json
        IN  /\ {"@context", "@type"} \subseteq DOMAIN doc
            /\ doc["@context"] = SchemaOrg
            /\ doc["@type"] = "Recipe"
            /\ {"context", "type"} \cap DOMAIN doc = {}

C6_Witness ==
    /\ pc = "done"
    /\ JsonPrinted # {}
    /\ stdout[Len(stdout)].json["recipeCategory"] = "breakfast"
    /\ Len(stdout[Len(stdout)].json["recipeInstructions"]) = 3

\* C7: the external calls made are a prefix of: caption fetch, metadata fetch,
\* LLM completion, each at most once; the LLM is called only with both fetched
\* values in hand and is given the fetched title and transcript; and once a
\* helper has failed, the run has ended and nothing was called after it.
C7_NoRetryFixedOrder ==
    /\ Len(calls) <= 3
    /\ \A i \in DOMAIN calls :
          calls[i].svc = <<"fetch", "extract_info", "responses.parse">>[i]
    /\ \A i \in CallsTo("responses.parse") :
          /\ transcript_text # None /\ video_info # None
          /\ results[1].outcome = "value" /\ results[2].outcome = "value"
          /\ calls[i].title = Value(video_info).title
          /\ calls[i].transcript = Value(transcript_text)
    /\ Len(results) <= 3
    /\ \A i \in DOMAIN results :
          /\ results[i].fn = <<"get_transcript", "get_video_info", "extract_recipe">>[i]
          /\ results[i].outcome # "value" =>
                /\ Terminated
                /\ i = Len(results)
                /\ Len(calls) <= i

C7_Witness ==
    /\ pc = "done"
    /\ Len(calls) = 3
    /\ calls[3].title = "Fried Onion Recipe"
    /\ calls[3].transcript = <<"a", " ", "b", " ", "c">>
    /\ results[3].outcome = "none"

\* C8: no failure of a helper reaches main as an exception, and every absent
\* result a helper hands back was logged by it.
C8_FailuresAreLoggedAbsentResults ==
    \A i \in DOMAIN results :
        /\ results[i].outcome # "exception"
        /\ results[i].outcome = "none" => results[i].log # <<>>

\* C9: every BaseRecipe extract_recipe returns, and every Recipe printed, has
\* recipeCategory among the six enumerated values.
C9_CategoryIsEnumerated ==
    /\ base_recipe # None => Value(base_recipe).recipeCategory \in Categories
    /\ \A i \in JsonPrinted : stdout[i].json["recipeCategory"] \in Categories

============================================================================
